---- MODULE Spec2Model ----
(***************************************************************************)
(* Model of render_cube and create_transform_json of scripts/cube.py:      *)
(* golden-angle spherical-cap sampling, the stride-interleaved train/test  *)
(* partition, the per-frame render call and the two manifest files.        *)
(*                                                                         *)
(* Numbers.  Python floats are modelled by exact rationals.  train_ratio   *)
(* is a pair <<p, q>> (p/q), cos(theta_max) a pair <<c, d>> (c/d).  The    *)
(* ratios of TrainRatios and the frame counts of the model never put       *)
(* n * train_ratio within floating-point error of a tie, so the exact      *)
(* round-half-even below is what Python's round() returns.                 *)
(* A camera pose is [phi |-> i, z |-> z_i]: the azimuth (i * phi_g) mod    *)
(* 2 pi is named by its multiplier i (phi_g / 2 pi is irrational, so i     *)
(* names it uniquely) and z_i = cos(theta_i); the camera is at the pole    *)
(* (0, 0, distance) exactly when z_i = 1.                                  *)
(* Paths are token sequences relative to the object directory:             *)
(* f"train/r_{k}" is <<"train", "/", "r_", k>>.                            *)
(***************************************************************************)
EXTENDS Integers, Sequences, FiniteSets, TLC

\* largest and most negative num_images of the configurations explored
MaxN == 9
MaxNeg == 2

NumImages == (0 - MaxNeg)..MaxN
\* train_ratio values p/q in [0, 1]; 33/100 is the ratio the scripts pass
TrainRatios == {<<0, 1>>, <<1, 4>>, <<1, 3>>, <<33, 100>>, <<1, 2>>, <<2, 3>>, <<3, 4>>, <<1, 1>>}
\* cos(theta_max) values c/d: theta_max = 90 degrees, and about 82.8 degrees
CosThetaMax == {<<0, 1>>, <<1, 8>>}
\* camera.data.angle_x of the freshly added camera, in degrees
CameraAngles == {39, 50}

TrainFile == "transforms_train.json"
TestFile == "transforms_test.json"

VARIABLES
    num_images,             \* config["camera"]["num_images"]
    train_ratio,            \* argument of render_cube
    cos_theta_max,          \* np.cos(theta_max)
    camera_angle_x,         \* camera_data.angle_x
    pc,                     \* "start", "loop", "render", "done", "error"
    err,                    \* the exception that ended the run, or "none"
    z,                      \* the array z (1-based: z[i+1] is z_i)
    num_train,
    stride,
    i,                      \* loop variable of the frame loop
    ntrain,
    ntest,
    train_camera_params,
    test_camera_params,
    camera,                 \* pose of the scene camera
    filepath,               \* bpy.context.scene.render.filepath
    renderCalls,            \* the render calls made so far, in order
    files,                  \* the manifest files under the object directory
    warnings                \* manifest names reported by the empty-split warning

vars == <<num_images, train_ratio, cos_theta_max, camera_angle_x, pc, err, z,
          num_train, stride, i, ntrain, ntest, train_camera_params,
          test_camera_params, camera, filepath, renderCalls, files, warnings>>

----------------------------------------------------------------------------
\* Python's round(p / q) for integers p, q with q # 0: round half to even
RoundHalfEven(p, q) ==
    LET a == IF q < 0 THEN 0 - p ELSE p
        b == IF q < 0 THEN 0 - q ELSE q
        f == a \div b
        r == a - f * b
    IN  IF 2 * r < b THEN f
        ELSE IF 2 * r > b THEN f + 1
        ELSE IF f % 2 = 0 THEN f ELSE f + 1

\* numpy's a / b on int arrays: 0/0 is nan (a warning, no exception)
NaN == [nan |-> TRUE, num |-> 0, den |-> 0]

NpTrueDivide(a, b) ==
    IF b = 0 THEN NaN ELSE [nan |-> FALSE, num |-> a, den |-> b]

\* z_i = 1 - i/(num_images-1) * (1 - cos(theta_max)), cos(theta_max) = c[1]/c[2]
ZOf(k, n, c) ==
    LET t == NpTrueDivide(k, n - 1)
    IN  IF t.nan THEN NaN
        ELSE [nan |-> FALSE,
              num |-> t.den * c[2] - t.num * (c[2] - c[1]),
              den |-> t.den * c[2]]

\* i = np.arange(num_images); z = 1 - i/(num_images-1)*(1 - np.cos(theta_max))
ZArray(n, c) ==
    IF n <= 0 THEN <<>> ELSE [k \in 1..n |-> ZOf(k - 1, n, c)]

\* num_train = round(num_images * train_ratio)
NumTrain(n, ratio) == RoundHalfEven(n * ratio[1], ratio[2])

\* variant: the quotient truncated and bumped instead of rounded
Stride_truncated(n, m) ==
    (IF m < 0 THEN (0 - n) \div (0 - m) ELSE n \div m) + 1

\* stride = round(num_images / num_train), for num_train # 0
Stride(n, m) == RoundHalfEven(n, m)

\* variant: the train frames taken at the end of each stride, not its start
IsTrain_shifted(k, s) == k % s = s - 1

\* i % stride == 0, for stride >= 1
IsTrain(k, s) == k % s = 0

\* f"train/r_{ntrain}" and f"test/r_{ntest}"
FilePath(split, k) == <<split, "/", "r_", k>>

\* variant: the image named by the counter after its increment
FName_incremented(counter) == <<"r_", counter>>

\* fname = f"r_{ntrain-1}" (f"r_{ntest-1}"), from the counter after its increment
FName(counter) == <<"r_", counter - 1>>

\* os.path.join(out_dir, f"{fname}.png"), out_dir the split's directory
ImagePath(split, fname) == <<split, "/">> \o fname \o <<".png">>

\* the frame dict built for pose k
Frame(k, s, nt, ne, pose, angle) ==
    [file_path |-> IF IsTrain(k, s) THEN FilePath("train", nt) ELSE FilePath("test", ne),
     rotation |-> "phi_g",
     transform_matrix |-> pose,
     camera_angle_x |-> angle]

NoManifest == [exists |-> FALSE, camera_angle_x |-> 0, frames |-> <<>>]

\* variant: the frame loop starts at the second accumulated frame
create_transform_json_skipFirst(camera_params) ==
    IF camera_params = <<>>
    THEN [warned |-> TRUE, file |-> NoManifest]
    ELSE [warned |-> FALSE,
          file |-> [exists |-> TRUE,
                    camera_angle_x |-> camera_params[1].camera_angle_x,
                    frames |-> [k \in 1..(Len(camera_params) - 1) |->
                                   [file_path |-> camera_params[k + 1].file_path,
                                    rotation |-> camera_params[k + 1].rotation,
                                    transform_matrix |-> camera_params[k + 1].transform_matrix]]]]

\* create_transform_json: what it leaves in the file, and whether it warned
create_transform_json(camera_params) ==
    IF camera_params = <<>>
    THEN [warned |-> TRUE, file |-> NoManifest]
    ELSE [warned |-> FALSE,
          file |-> [exists |-> TRUE,
                    camera_angle_x |-> camera_params[1].camera_angle_x,
                    frames |-> [k \in 1..Len(camera_params) |->
                                   [file_path |-> camera_params[k].file_path,
                                    rotation |-> camera_params[k].rotation,
                                    transform_matrix |-> camera_params[k].transform_matrix]]]]

----------------------------------------------------------------------------
NoPose == [phi |-> 0 - 1, z |-> NaN]

Init ==
    /\ num_images \in NumImages
    /\ train_ratio \in TrainRatios
    /\ cos_theta_max \in CosThetaMax
    /\ camera_angle_x \in CameraAngles
    /\ pc = "start"
    /\ err = "none"
    /\ z = <<>>
    /\ num_train = 0
    /\ stride = 0
    /\ i = 0
    /\ ntrain = 0
    /\ ntest = 0
    /\ train_camera_params = <<>>
    /\ test_camera_params = <<>>
    /\ camera = NoPose
    /\ filepath = <<>>
    /\ renderCalls = <<>>
    /\ files = [f \in {TrainFile, TestFile} |-> NoManifest]
    /\ warnings = {}

\* lines 155-173: the sample arrays, num_train and stride; the division of
\* line 169 raises ZeroDivisionError when num_train is 0
Setup ==
    /\ pc = "start"
    /\ z' = ZArray(num_images, cos_theta_max)
    /\ num_train' = NumTrain(num_images, train_ratio)
    /\ IF num_train' = 0
       THEN /\ pc' = "error"
            /\ err' = "ZeroDivisionError"
            /\ stride' = stride
       ELSE /\ pc' = "loop"
            /\ err' = err
            /\ stride' = Stride(num_images, num_train')
    /\ UNCHANGED <<num_images, train_ratio, cos_theta_max, camera_angle_x, i,
                   ntrain, ntest, train_camera_params, test_camera_params,
                   camera, filepath, renderCalls, files, warnings>>

\* lines 175-209: one pass of the loop body up to the render call
PrepareFrame ==
    /\ pc = "loop"
    /\ i < num_images
    /\ camera' = [phi |-> i, z |-> z[i + 1]]
    /\ LET frame == Frame(i, stride, ntrain, ntest, camera', camera_angle_x)
       IN  IF IsTrain(i, stride)
           THEN /\ train_camera_params' = Append(train_camera_params, frame)
                /\ ntrain' = ntrain + 1
                /\ filepath' = ImagePath("train", FName(ntrain'))
                /\ UNCHANGED <<test_camera_params, ntest>>
           ELSE /\ test_camera_params' = Append(test_camera_params, frame)
                /\ ntest' = ntest + 1
                /\ filepath' = ImagePath("test", FName(ntest'))
                /\ UNCHANGED <<train_camera_params, ntrain>>
    /\ pc' = "render"
    /\ UNCHANGED <<num_images, train_ratio, cos_theta_max, camera_angle_x, err,
                   z, num_train, stride, i, renderCalls, files, warnings>>

\* variant: a failed render is caught and the loop goes on to the next pose
Render_swallow ==
    /\ pc = "render"
    /\ \E ok \in BOOLEAN :
          renderCalls' = Append(renderCalls,
                                [path |-> filepath, pose |-> camera, ok |-> ok])
    /\ i' = i + 1
    /\ pc' = "loop"
    /\ UNCHANGED <<num_images, train_ratio, cos_theta_max, camera_angle_x, err, z,
                   num_train, stride, ntrain, ntest, train_camera_params,
                   test_camera_params, camera, filepath, files, warnings>>

\* variant: a failed render leaves the loop and the manifests are written
Render_break ==
    /\ pc = "render"
    /\ \E ok \in BOOLEAN :
          /\ renderCalls' = Append(renderCalls,
                                   [path |-> filepath, pose |-> camera, ok |-> ok])
          /\ i' = IF ok THEN i + 1 ELSE num_images
    /\ pc' = "loop"
    /\ UNCHANGED <<num_images, train_ratio, cos_theta_max, camera_angle_x, err, z,
                   num_train, stride, ntrain, ntest, train_camera_params,
                   test_camera_params, camera, filepath, files, warnings>>

\* line 210: bpy.ops.render.render(write_still=True) returns, or raises
\* RuntimeError, which nothing catches
Render ==
    /\ pc = "render"
    /\ \E ok \in BOOLEAN :
          /\ renderCalls' = Append(renderCalls,
                                   [path |-> filepath, pose |-> camera, ok |-> ok])
          /\ IF ok
             THEN /\ i' = i + 1
                  /\ pc' = "loop"
                  /\ err' = err
             ELSE /\ i' = i
                  /\ pc' = "error"
                  /\ err' = "RuntimeError"
    /\ UNCHANGED <<num_images, train_ratio, cos_theta_max, camera_angle_x, z,
                   num_train, stride, ntrain, ntest, train_camera_params,
                   test_camera_params, camera, filepath, files, warnings>>

\* lines 212-216: the loop is exhausted; both manifests are handled
Finalize ==
    /\ pc = "loop"
    /\ i >= num_images
    /\ LET tr == create_transform_json(train_camera_params)
           te == create_transform_json(test_camera_params)
       IN  /\ files' = [f \in {TrainFile, TestFile} |->
                           IF f = TrainFile THEN tr.file ELSE te.file]
           /\ warnings' = {f \in {TrainFile, TestFile} :
                              IF f = TrainFile THEN tr.warned ELSE te.warned}
    /\ pc' = "done"
    /\ UNCHANGED <<num_images, train_ratio, cos_theta_max, camera_angle_x, err,
                   z, num_train, stride, i, ntrain, ntest, train_camera_params,
                   test_camera_params, camera, filepath, renderCalls>>

Next == Setup \/ PrepareFrame \/ Render \/ Finalize

Spec == Init /\ [][Next]_vars

----------------------------------------------------------------------------
\* Vocabulary of the properties

Range(seq) == {seq[k] : k \in 1..Len(seq)}

Abs(x) == IF x < 0 THEN 0 - x ELSE x

\* the global indices of the poses recorded in a split's accumulator
PoseIdx(params) == {params[k].transform_matrix.phi : k \in 1..Len(params)}

Accumulated == Range(train_camera_params) \cup Range(test_camera_params)

Total == Len(train_camera_params) + Len(test_camera_params)

IsOrdered(params) ==
    \A j, k \in 1..Len(params) :
        j < k => params[j].transform_matrix.phi < params[k].transform_matrix.phi

Distinct(seq) == \A j, k \in 1..Len(seq) : j # k => seq[j] # seq[k]

\* the poses whose render call has returned
RenderedPoses == {c.pose : c \in {d \in Range(renderCalls) : d.ok}}

\* the image path without its extension
StripExt(path) == SubSeq(path, 1, Len(path) - 1)

\* the images written under a split's directory, named as in the manifest
ImagesOf(split) ==
    {StripExt(c.path) : c \in {d \in Range(renderCalls) : d.ok /\ d.path[1] = split}}

----------------------------------------------------------------------------
\* C1: after a run of render_cube, for every frame count and train fraction,
\* the train and test accumulators together hold exactly num_images frames.
C1_PartitionCoversAll ==
    pc = "done" => Total = num_images

\* C2: global index k is in train iff k mod stride = 0, else in test; each
\* split's frames are in traversal order, its local index counts 0, 1, 2, ...
\* and is the number in the frame's file_path; num_images = 9 with
\* train_ratio = 1/3 gives stride 3, train {0,3,6} and test {1,2,4,5,7,8}.
C2_StrideAssignment ==
    /\ \A k \in 1..Len(train_camera_params) :
          /\ train_camera_params[k].file_path = <<"train", "/", "r_", k - 1>>
          /\ train_camera_params[k].transform_matrix.phi % stride = 0
    /\ \A k \in 1..Len(test_camera_params) :
          /\ test_camera_params[k].file_path = <<"test", "/", "r_", k - 1>>
          /\ test_camera_params[k].transform_matrix.phi % stride # 0
    /\ PoseIdx(train_camera_params) \cup PoseIdx(test_camera_params) = 0..(Total - 1)
    /\ IsOrdered(train_camera_params)
    /\ IsOrdered(test_camera_params)
    /\ (num_images = 9 /\ train_ratio = <<1, 3>> /\ pc = "done") =>
          /\ num_train = 3
          /\ stride = 3
          /\ PoseIdx(train_camera_params) = {0, 3, 6}
          /\ PoseIdx(test_camera_params) = {1, 2, 4, 5, 7, 8}

C2_Witness ==
    /\ pc = "done"
    /\ num_images = 9
    /\ train_ratio = <<1, 3>>
    /\ Len(train_camera_params) = 3
    /\ Len(test_camera_params) = 6

\* C3 (as stated): for num_images >= 1, the number of train frames differs
\* from round(num_images * train_ratio) by at most stride.
C3_DeviationWithinStride ==
    (pc = "done" /\ num_images >= 1) =>
        Abs(Len(train_camera_params) - num_train) <= stride

\* C3 (amended): for num_images >= 1, the number of train frames is
\* ceil(num_images / stride), and it differs from num_train =
\* round(num_images * train_ratio) by at most num_train / (2 * stride) + 1.
C3_DeviationBound ==
    (pc = "done" /\ num_images >= 1) =>
        /\ Len(train_camera_params) * stride >= num_images
        /\ (Len(train_camera_params) - 1) * stride < num_images
        /\ 2 * stride * Abs(Len(train_camera_params) - num_train)
              <= num_train + 2 * stride

C3_Witness ==
    /\ pc = "done"
    /\ num_images >= 1
    /\ Abs(Len(train_camera_params) - num_train) > stride

\* C4: a split that ends with zero frames is not fatal: with num_images >= 1
\* the run does not abort on the stride division, and at the end an empty
\* split has no manifest and a warning while the other manifest is written.
C4_EmptySplitNonFatal ==
    /\ num_images >= 1 => err # "ZeroDivisionError"
    /\ (pc = "done" /\ num_images >= 1) =>
          /\ train_camera_params = <<>> =>
                /\ ~files[TrainFile].exists
                /\ TrainFile \in warnings
                /\ files[TestFile].exists
          /\ test_camera_params = <<>> =>
                /\ ~files[TestFile].exists
                /\ TestFile \in warnings
                /\ files[TrainFile].exists

\* C5: with num_images <= 0 the run is rejected with an error before any
\* render call and before the manifests are handled; it never finishes.
C5_RejectsNonPositive ==
    num_images <= 0 => pc # "done"

\* C6: with num_images = 1 the single sample has z = 1 (the pole); the z
\* formula is not evaluated with the divisor num_images - 1 = 0.
C6_SingleSampleAtPole ==
    (num_images = 1 /\ pc # "start") =>
        /\ Len(z) = 1
        /\ ~z[1].nan
        /\ z[1].num = z[1].den

ManifestMatches(name, params) ==
    params # <<>> =>
        /\ files[name].exists
        /\ Len(files[name].frames) = Len(params)
        /\ \A k \in 1..Len(params) :
              /\ files[name].frames[k].file_path = params[k].file_path
              /\ files[name].frames[k].rotation = params[k].rotation
              /\ files[name].frames[k].transform_matrix = params[k].transform_matrix
        /\ \A j, k \in 1..Len(files[name].frames) :
              j < k => files[name].frames[j].transform_matrix.phi
                          < files[name].frames[k].transform_matrix.phi
        /\ files[name].camera_angle_x = params[1].camera_angle_x
        /\ Distinct([k \in 1..Len(files[name].frames) |-> files[name].frames[k].file_path])

C9_ManifestContent ==
    pc = "done" =>
        /\ ManifestMatches(TrainFile, train_camera_params)
        /\ ManifestMatches(TestFile, test_camera_params)

C9_Witness ==
    /\ pc = "done"
    /\ Len(train_camera_params) >= 2
    /\ Len(test_camera_params) >= 2
    /\ files[TrainFile].exists
    /\ files[TestFile].exists

\* C10: the image path of each render call is the manifest file_path of the
\* same pose plus the extension; between frames the images written for a
\* split are exactly the file_path values accumulated for it; no image path
\* is used twice.
C10_ImageManifestAgreement ==
    /\ \A c \in Range(renderCalls) :
          \E f \in Accumulated :
              /\ f.transform_matrix = c.pose
              /\ c.path = f.file_path \o <<".png">>
    /\ pc = "render" =>
          \E f \in Accumulated :
              /\ f.transform_matrix = camera
              /\ filepath = f.file_path \o <<".png">>
    /\ pc \in {"loop", "done"} =>
          /\ ImagesOf("train") = {f.file_path : f \in Range(train_camera_params)}
          /\ ImagesOf("test") = {f.file_path : f \in Range(test_camera_params)}
    /\ Distinct([k \in 1..Len(renderCalls) |-> renderCalls[k].path])

C10_Witness ==
    /\ pc = "loop"
    /\ ntrain >= 2
    /\ ntest >= 2
    /\ Len(renderCalls) = ntrain + ntest
    /\ Cardinality(ImagesOf("train")) = ntrain
    /\ Cardinality(ImagesOf("test")) = ntest

====
